---- MODULE Spec2Model ----
(***************************************************************************)
(* The voice-chat client of src/app/static/js/app.js (class VoiceChatApp)   *)
(* together with the audio worklet of src/unnamed/part_000                  *)
(* (class AudioProcessorWorklet), as a state machine.                       *)
(*                                                                         *)
(* Every event-loop task (a method call from a DOM listener, a WebSocket    *)
(* event handler, the continuation of an await, a port message) is one      *)
(* action: JavaScript runs it to completion, or up to the statement that    *)
(* throws.  The browser objects the code drives are modelled by their       *)
(* specified behaviour: WebSocket.send throws InvalidStateError while the   *)
(* socket is CONNECTING, transmits while it is OPEN and discards the data   *)
(* silently while it is CLOSING or CLOSED; WebSocket.close moves a          *)
(* CONNECTING or OPEN socket to CLOSING and is a no-op otherwise.           *)
(*                                                                         *)
(* The methods are taken as callable in every state: the Enter-key          *)
(* listeners (app.js:60-66) call connect() whatever the buttons' disabled   *)
(* state is, and window.app (app.js:526) exposes the object.                *)
(*                                                                         *)
(* Two variables record history and influence no action: last (the task     *)
(* that ran last, the session as it found it, and its effects in order)     *)
(* and scn (how far the sequence stopRecording(); disconnect() has got).    *)
(***************************************************************************)
EXTENDS Integers, Sequences, FiniteSets, TLC

\* Bounds of the model.
MaxObjects == 2      \* WebSockets and microphone streams created, and messages
                     \* received, in one run; a message may be the one past it
MaxInFlight == 1     \* audioData messages in flight on the port at once
MaxCalls == 3        \* process() calls and 'flush' messages of one processor
Grid == 1000         \* the finite samples tried are the multiples of 1/Grid
MaxTime == 1         \* how far the AudioContext clock advances, in sample frames

\* part_000:6  this.bufferSize = 4096
bufferSize == 4096

\* Lengths of the blocks handed to process() (inputs[0][0].length).
BlockLens == {2048, 4096}

\* Lengths of the blocks handed to a processor on its own: empty, one render
\* quantum, a whole frame, two frames.
AccBlockLens == {0, 128, 4096, 8192}

\* Raw contents of the room-id and user-id inputs when "connect" is pressed,
\* as sequences of characters, <<room id, user id>>:
\* an empty room id, a user id of white space only, two ids padded with white
\* space, and a room id with a "#" in it.
ConnectInputs ==
    {<< <<>>, <<" ", "r", "\n">> >>,
     << <<" ", "r", "\n">>, <<" ", "\t">> >>,
     << <<" ", "r", "\n">>, <<" ", "r", "\n">> >>,
     << <<"r", "#">>, <<" ", "r", "\n">> >>}

VARIABLES
    websocket,          \* this.websocket: 0 is null, else an index of sockets
    sockets,            \* every WebSocket created: [rs, sent]
    audioContext,       \* this.audioContext # null
    workletLoaded,      \* addModule resolved: 'audio-processor' is registered
    initPending,        \* a connect() is suspended at await initializeAudio()
    pendingRoom,        \* the roomId of that connect(), <<>> when none is suspended
    isRecording,        \* this.isRecording
    isConnected,        \* this.isConnected
    audioStream,        \* this.audioStream: 0 is null, else an index of streams
    audioWorkletNode,   \* this.audioWorkletNode: 0 is null, else an index of nodes
    streams,            \* every MediaStream granted: "live" or "stopped"
    nodes,              \* every AudioWorkletNode created: [connected, buf, src]
    micWait,            \* startRecording() calls suspended at await getUserMedia
    resumeWait,         \* startRecording() calls suspended at await resume()
    flushQ,             \* nodes whose processor has a 'flush' message in flight
    portQ,              \* audioData messages in flight from processors to the app
    hasMediaDevices,    \* navigator.mediaDevices is defined
    last,               \* the event-loop task that ran last and what it did
    accum,              \* one AudioProcessorWorklet on its own: buffer, input, frames
    pcm,                \* one sample through floatToInt16 and back
    playback,           \* the AudioContext clock, the sources playAudio started,
                        \* and whether the transcript shows its placeholder
    scn                 \* progress of the scenario stopRecording(); disconnect():
                        \* stage 1 after stopRecording() from Connected(recording),
                        \* 2 after the disconnect() that follows it, 3 after the
                        \* close event of that socket, 4 and 5 after a further
                        \* disconnect() (before, after the close event); 0 otherwise

vars == <<websocket, sockets, audioContext, workletLoaded, initPending,
          pendingRoom, isRecording, isConnected, audioStream, audioWorkletNode, streams,
          nodes, micWait, resumeWait, flushQ, portQ,
          hasMediaDevices, last, scn, accum, pcm, playback>>

\* The session part of the state; the rest (pureVars) is changed only by the
\* specifications of the accumulator, the codec and the playback engine.
sessionVars == <<websocket, sockets, audioContext, workletLoaded, initPending,
                 pendingRoom, isRecording, isConnected, audioStream, audioWorkletNode,
                 streams, nodes, micWait, resumeWait, flushQ, portQ,
                 hasMediaDevices, last, scn>>

pureVars == <<accum, pcm, playback>>

connVars == <<websocket, sockets, isConnected>>
recVars == <<isRecording, audioStream, audioWorkletNode, streams, nodes, flushQ>>
audioVars == <<audioContext, workletLoaded, initPending, pendingRoom>>
workletVars == <<portQ>>

----------------------------------------------------------------------------
\* Pure helpers.

\* The WhiteSpace characters of ECMAScript: TAB, VT, FF, SP, NBSP, ZWNBSP and
\* the space separators (Zs).  A character that cannot be written in a string
\* of a module is denoted by its code point, "U+3000".
WhiteSpace ==
    {"\t", "", "\f", " ", " ", "﻿", " ",
     "U+2000", "U+2001", "U+2002", "U+2003", "U+2004", "U+2005", "U+2006",
     "U+2007", "U+2008", "U+2009", "U+200A", "U+202F", "U+205F", "U+3000"}

\* The LineTerminator characters of ECMAScript: LF, CR, LS, PS.
LineTerminators == {"\n", "\r", "U+2028", "U+2029"}

\* String.prototype.trim strips the WhiteSpace and LineTerminator characters.
IsSpace(c) == c \in WhiteSpace \cup LineTerminators

RECURSIVE TrimStart(_)
TrimStart(s) ==
    IF s # <<>> /\ IsSpace(Head(s)) THEN TrimStart(Tail(s)) ELSE s

RECURSIVE TrimEnd(_)
TrimEnd(s) ==
    IF s # <<>> /\ IsSpace(s[Len(s)]) THEN TrimEnd(SubSeq(s, 1, Len(s) - 1)) ELSE s

Trim_none(s) == s

\* String.prototype.trim
Trim(s) == TrimEnd(TrimStart(s))

\* One effect of a handler, in the order the handler performs them.
E(e) == [e |-> e, t |-> "", rs |-> ""]
ESend(t, rs) == [e |-> "send", t |-> t, rs |-> rs]

\* The session as a handler finds it.
Pre ==
    [conn |-> isConnected, rec |-> isRecording, stream |-> audioStream,
     node |-> audioWorkletNode, ws |-> websocket,
     rs |-> IF websocket = 0 THEN "NONE" ELSE sockets[websocket].rs]

\* No envelope: the task was not a message event.
NoMsg == [type |-> "", kind |-> "", n |-> 0]

Task(op, raised, alerted, fx) ==
    [op |-> op, raised |-> raised, alerted |-> alerted, pre |-> Pre, fx |-> fx,
     msg |-> NoMsg]

NoScn == [stage |-> 0, sock |-> 0, stream |-> 0]

OnOpenEnvelopes_swapped == <<"get_history", "user_joined">>

\* app.js:97-107  the envelopes onopen sends, in order
OnOpenEnvelopes == <<"user_joined", "get_history">>

\* Envelopes recorded per socket: those of onopen and the one after them.
LogLen == Len(OnOpenEnvelopes) + 1

\* WebSocket.send(data) on socket w of S: transmitted only while OPEN.  The
\* record of a socket keeps the first LogLen envelopes transmitted over it.
SendOn(S, w, t) ==
    IF S[w].rs = "OPEN"
    THEN [S EXCEPT ![w].sent = IF Len(@) < LogLen THEN Append(@, t) ELSE @]
    ELSE S

RECURSIVE SendAll(_, _, _)
SendAll(S, w, ts) ==
    IF ts = <<>> THEN S ELSE SendAll(SendOn(S, w, Head(ts)), w, Tail(ts))

\* WebSocket.send throws InvalidStateError while the socket is CONNECTING.
SendThrows(S, w) == S[w].rs = "CONNECTING"

\* WebSocket.close(): starts the closing handshake unless already closing/closed.
CloseOn(S, w) ==
    IF S[w].rs \in {"CONNECTING", "OPEN"}
    THEN [S EXCEPT ![w].rs = "CLOSING"]
    ELSE S

NewSocket == [rs |-> "CONNECTING", sent |-> <<>>]

\* Objects created or about to be created by a suspended call, and messages
\* received.
Objects ==
    Len(sockets) + (IF initPending THEN 1 ELSE 0) + Len(streams) + micWait
    + playback.received

----------------------------------------------------------------------------
\* Initial state: the constructor, app.js:2-26.

\* part_000:5  this.buffer = [], nothing fed, nothing posted
AccumInit ==
    [buffer |-> <<>>, fed |-> 0, frames |-> <<>>, calls |-> 0,
     op |-> "constructor", pre |-> <<>>, len |-> 0, emitted |-> 0]

\* No sample has been converted yet.
PcmIdle ==
    [stage |-> "idle", kind |-> "finite", k |-> 0, whole |-> 0, enc |-> 0,
     num |-> 0, den |-> 1]

\* No message received, no source started; the clock of the context is counted
\* from the start of the first source.  The transcript element is as the markup
\* of the page has it, with the placeholder (class "empty-state") in it or
\* without, until a handler writes it: "markup", then "shown" or "absent".
PlaybackInit == [now |-> 0, sched |-> <<>>, received |-> 0, placeholder |-> "markup"]

Init ==
    /\ websocket = 0
    /\ sockets = <<>>
    /\ audioContext = FALSE
    /\ workletLoaded = FALSE
    /\ initPending = FALSE
    /\ pendingRoom = <<>>
    /\ isRecording = FALSE
    /\ isConnected = FALSE
    /\ audioStream = 0
    /\ audioWorkletNode = 0
    /\ streams = <<>>
    /\ nodes = <<>>
    /\ micWait = 0
    /\ resumeWait = 0
    /\ flushQ = {}
    /\ portQ = 0
    /\ hasMediaDevices \in BOOLEAN
    /\ last = [op |-> "constructor", raised |-> FALSE, alerted |-> FALSE,
               pre |-> [conn |-> FALSE, rec |-> FALSE, stream |-> 0, node |-> 0,
                        ws |-> 0, rs |-> "NONE"],
               fx |-> <<>>, msg |-> NoMsg]
    /\ scn = NoScn
    /\ accum = AccumInit
    /\ pcm = PcmIdle
    /\ playback = PlaybackInit

----------------------------------------------------------------------------
\* connect(), app.js:69-140.

\* app.js:73  if (!roomId || !userId)
InputsRejected(room, user) == Trim(room) = <<>> \/ Trim(user) = <<>>

\* app.js:86-88  new WebSocket(wsUrl) throws SyntaxError when the URL has a
\* fragment: wsUrl ends with the room id, so when the room id contains "#".
UrlOk(roomId) == \A i \in 1..Len(roomId) : roomId[i] # "#"

\* app.js:84-134  this.websocket = new WebSocket(wsUrl) and its handlers, or,
\* when the constructor throws, the catch of connect(), app.js:136-139.
OpenWebSocket(op, roomId) ==
    IF UrlOk(roomId)
    THEN /\ sockets' = Append(sockets, NewSocket)
         /\ websocket' = Len(sockets) + 1
         /\ last' = Task(op, FALSE, FALSE, <<E("new_socket")>>)
    ELSE /\ UNCHANGED <<websocket, sockets>>
         /\ last' = Task(op, FALSE, TRUE, <<E("connect_failed")>>)

\* What initializeAudio() (app.js:28-51) does before it returns or suspends:
\* "await": the context is created and addModule is awaited; "ctor_throws":
\* the AudioContext constructor throws; "no_worklet": the context is created
\* and has no audioWorklet, so app.js:37 throws TypeError.  Both errors are
\* caught at app.js:45.
InitOutcomes == {"await", "ctor_throws", "no_worklet"}

\* The synchronous part of connect(): validation, then either the suspension at
\* await initializeAudio() (the AudioContext exists and addModule is pending) or,
\* when no await yields to another task, the creation of the WebSocket.
Connect(room, user) ==
    /\ UNCHANGED pureVars
    /\ scn' = NoScn
    /\ UNCHANGED <<isConnected, recVars, micWait, resumeWait, workletVars,
                   hasMediaDevices, workletLoaded>>
    /\ IF InputsRejected(room, user)
       THEN /\ last' = Task("connect", FALSE, TRUE, <<>>)
            /\ UNCHANGED <<websocket, sockets, audioContext, initPending,
                           pendingRoom>>
       ELSE IF ~audioContext
       THEN \E init \in InitOutcomes :
               IF init = "await"
               THEN \* app.js:31-37: context created, addModule awaited
                    /\ Objects < MaxObjects
                    /\ audioContext' = TRUE
                    /\ initPending' = TRUE
                    /\ pendingRoom' = Trim(room)
                    /\ last' = Task("connect", FALSE, FALSE, <<E("await_init")>>)
                    /\ UNCHANGED <<websocket, sockets>>
               ELSE \* app.js:45-50: caught, connect() goes on
                    /\ UrlOk(Trim(room)) => Objects < MaxObjects
                    /\ audioContext' = (init = "no_worklet")
                    /\ OpenWebSocket("connect", Trim(room))
                    /\ UNCHANGED <<initPending, pendingRoom>>
       ELSE /\ UrlOk(Trim(room)) => Objects < MaxObjects
            /\ OpenWebSocket("connect", Trim(room))
            /\ UNCHANGED <<audioContext, initPending, pendingRoom>>

\* The continuation of connect() after await initializeAudio(): addModule has
\* resolved (app.js:40-43) or rejected (app.js:45-50); then app.js:84-139.
ConnectResume(moduleOk) ==
    /\ UNCHANGED pureVars
    /\ initPending
    /\ initPending' = FALSE
    /\ pendingRoom' = <<>>
    /\ workletLoaded' = moduleOk
    /\ OpenWebSocket("connect_resume", pendingRoom)
    /\ scn' = NoScn
    /\ UNCHANGED <<audioContext, isConnected, recVars, micWait, resumeWait,
                   workletVars, hasMediaDevices>>

\* websocket.onopen of socket s, app.js:90-108.  The handler sends through
\* this.websocket, whatever socket that is when the event is delivered.
SocketOpen(s) ==
    /\ UNCHANGED pureVars
    /\ s \in 1..Len(sockets)
    /\ sockets[s].rs = "CONNECTING"
    /\ isConnected' = TRUE
    /\ LET S1 == [sockets EXCEPT ![s].rs = "OPEN"]
           w == websocket
       IN  IF w = 0
           THEN \* TypeError: this.websocket is null
                /\ sockets' = S1
                /\ last' = Task("onopen", TRUE, FALSE, <<E("conn_true")>>)
           ELSE IF SendThrows(S1, w)
           THEN /\ sockets' = S1
                /\ last' = Task("onopen", TRUE, FALSE,
                                <<E("conn_true"), ESend(OnOpenEnvelopes[1], S1[w].rs)>>)
           ELSE /\ sockets' = SendAll(S1, w, OnOpenEnvelopes)
                /\ last' = Task("onopen", FALSE, FALSE,
                                <<E("conn_true")>> \o
                                [i \in 1..Len(OnOpenEnvelopes) |->
                                    ESend(OnOpenEnvelopes[i], S1[w].rs)])
    /\ scn' = NoScn
    /\ UNCHANGED <<websocket, audioVars, recVars, micWait, resumeWait,
                   workletVars, hasMediaDevices>>

\* The close event of socket s: websocket.onerror (app.js:131-134) when the
\* connection failed, then websocket.onclose (app.js:114-129).
SocketClose(s, failed) ==
    /\ UNCHANGED pureVars
    /\ s \in 1..Len(sockets)
    /\ sockets[s].rs \in {"CONNECTING", "OPEN", "CLOSING"}
    /\ sockets[s].rs = "CONNECTING" => failed
    /\ isConnected' = FALSE
    /\ LET S1 == [sockets EXCEPT ![s].rs = "CLOSED"]
           w == websocket
       IN  IF w = 0
           THEN /\ sockets' = S1
                /\ last' = Task("onclose", FALSE, failed, <<E("conn_false")>>)
           ELSE IF SendThrows(S1, w)
           THEN /\ sockets' = S1
                /\ last' = Task("onclose", TRUE, failed,
                                <<E("conn_false"), ESend("user_left", S1[w].rs)>>)
           ELSE /\ sockets' = SendOn(S1, w, "user_left")
                /\ last' = Task("onclose", FALSE, failed,
                                <<E("conn_false"), ESend("user_left", S1[w].rs)>>)
    /\ scn' = IF scn.stage \in {2, 4} /\ scn.sock = s
              THEN [scn EXCEPT !.stage = 3]
              ELSE NoScn
    /\ UNCHANGED <<websocket, audioVars, recVars, micWait, resumeWait,
                   workletVars, hasMediaDevices>>

----------------------------------------------------------------------------
\* stopRecording(), app.js:258-276, as the changes it makes and their order.

NodesAfterStop ==
    IF audioWorkletNode # 0
    THEN [nodes EXCEPT ![audioWorkletNode].connected = FALSE]
    ELSE nodes

FlushQAfterStop ==
    IF audioWorkletNode # 0 THEN flushQ \cup {audioWorkletNode} ELSE flushQ

StreamsAfterStop ==
    IF audioStream # 0 THEN [streams EXCEPT ![audioStream] = "stopped"] ELSE streams

StopFx ==
    (IF audioWorkletNode # 0 THEN <<E("flush"), E("node_disconnect")>> ELSE <<>>)
    \o (IF audioStream # 0 THEN <<E("tracks_stop")>> ELSE <<>>)
    \o <<E("rec_false")>>

DoStopRecording ==
    /\ nodes' = NodesAfterStop
    /\ flushQ' = FlushQAfterStop
    /\ audioWorkletNode' = 0
    /\ streams' = StreamsAfterStop
    /\ audioStream' = 0
    /\ isRecording' = FALSE

\* The session is Connected(recording) on an open channel, holding a stream.
ConnectedRecording ==
    /\ isConnected
    /\ isRecording
    /\ websocket # 0
    /\ sockets[websocket].rs = "OPEN"
    /\ audioStream # 0

StopRecording ==
    /\ UNCHANGED pureVars
    /\ DoStopRecording
    /\ last' = Task("stopRecording", FALSE, FALSE, StopFx)
    /\ scn' = IF ConnectedRecording
              THEN [stage |-> 1, sock |-> websocket, stream |-> audioStream]
              ELSE NoScn
    /\ UNCHANGED <<connVars, audioVars, micWait, resumeWait, workletVars,
                   hasMediaDevices>>

----------------------------------------------------------------------------
\* disconnect(), app.js:142-164.

RefAfterClose_kept(w) == w

\* app.js:155  this.websocket = null
RefAfterClose(w) == 0

Disconnect ==
    /\ UNCHANGED pureVars
    /\ LET w == websocket IN
       IF w # 0 /\ SendThrows(sockets, w)
       THEN \* app.js:148 throws: nothing after it runs
            /\ last' = Task("disconnect", TRUE, FALSE,
                            <<ESend("user_left", sockets[w].rs)>>)
            /\ scn' = NoScn
            /\ UNCHANGED <<connVars, audioVars, recVars, micWait, resumeWait,
                           workletVars, hasMediaDevices>>
       ELSE /\ sockets' = IF w # 0
                          THEN CloseOn(SendOn(sockets, w, "user_left"), w)
                          ELSE sockets
            /\ websocket' = IF w # 0 THEN RefAfterClose(w) ELSE websocket
            /\ IF isRecording
               THEN DoStopRecording
               ELSE UNCHANGED recVars
            /\ isConnected' = FALSE
            /\ last' = Task("disconnect", FALSE, FALSE,
                   (IF w # 0
                    THEN <<ESend("user_left", sockets[w].rs), E("close"), E("ws_null")>>
                    ELSE <<>>)
                   \o (IF isRecording THEN StopFx ELSE <<>>)
                   \o <<E("conn_false")>>)
            /\ scn' = IF scn.stage = 1 THEN [scn EXCEPT !.stage = 2]
                      ELSE IF scn.stage \in {2, 4} THEN [scn EXCEPT !.stage = 4]
                      ELSE IF scn.stage \in {3, 5} THEN [scn EXCEPT !.stage = 5]
                      ELSE NoScn
            /\ UNCHANGED <<audioVars, micWait, resumeWait, workletVars,
                           hasMediaDevices>>

----------------------------------------------------------------------------
\* startRecording(), app.js:166-227.

StartRecordingRejected_never == FALSE

\* app.js:167  if (!this.isConnected)
StartRecordingRejected == ~isConnected

\* app.js:221-225  which caught errors are shown with alert()
ReportsToUser(name) == name \notin {"NotSupportedError", "TypeError"}

\* The outcomes app.js:189-196 (createMediaStreamSource, new AudioWorkletNode)
\* can have: "ok" needs the registered processor; the constructor throws
\* InvalidStateError for an unregistered one; createMediaStreamSource throws
\* NotSupportedError when the stream cannot be connected to this context.
PipelineOutcomes(stream) ==
    IF stream = 0 THEN {"TypeError"}
    ELSE (IF workletLoaded THEN {"ok"} ELSE {"InvalidStateError"})
         \cup {"NotSupportedError"}

\* app.js:189-215 on success, app.js:217-226 on failure.
BuildPipeline(op, fx0, stream) ==
    \E out \in PipelineOutcomes(stream) :
        IF out = "ok"
        THEN /\ nodes' = Append(nodes, [connected |-> TRUE, buf |-> 0,
                                         src |-> stream])
             /\ audioWorkletNode' = Len(nodes) + 1
             /\ isRecording' = TRUE
             /\ last' = Task(op, FALSE, FALSE,
                             fx0 \o <<E("node_created"), E("rec_true")>>)
        ELSE /\ UNCHANGED <<nodes, audioWorkletNode, isRecording>>
             /\ last' = Task(op, FALSE, ReportsToUser(out), fx0 \o <<E(out)>>)

StartRecording ==
    /\ UNCHANGED pureVars
    /\ scn' = NoScn
    /\ UNCHANGED <<connVars, audioVars, recVars, resumeWait, workletVars,
                   hasMediaDevices>>
    /\ IF StartRecordingRejected
       THEN /\ last' = Task("startRecording", FALSE, TRUE, <<>>)
            /\ UNCHANGED micWait
       ELSE IF ~hasMediaDevices
       THEN \* app.js:174: navigator.mediaDevices is undefined, TypeError caught
            /\ last' = Task("startRecording", FALSE, ReportsToUser("TypeError"),
                            <<E("TypeError")>>)
            /\ UNCHANGED micWait
       ELSE /\ Objects < MaxObjects
            /\ micWait' = micWait + 1
            /\ last' = Task("startRecording", FALSE, FALSE, <<E("await_mic")>>)

\* getUserMedia rejected: app.js:217-226 with NotAllowedError.
MicDenied ==
    /\ UNCHANGED pureVars
    /\ micWait > 0
    /\ micWait' = micWait - 1
    /\ last' = Task("mic_denied", FALSE, ReportsToUser("NotAllowedError"),
                    <<E("NotAllowedError")>>)
    /\ scn' = NoScn
    /\ UNCHANGED <<connVars, audioVars, recVars, resumeWait, workletVars,
                   hasMediaDevices>>

\* getUserMedia resolved: app.js:174 assigns this.audioStream, then app.js:184.
MicGranted(suspended) ==
    /\ UNCHANGED pureVars
    /\ micWait > 0
    /\ micWait' = micWait - 1
    /\ streams' = Append(streams, "live")
    /\ audioStream' = Len(streams) + 1
    /\ scn' = NoScn
    /\ UNCHANGED <<connVars, audioVars, flushQ, workletVars, hasMediaDevices>>
    /\ IF ~audioContext
       THEN \* app.js:184: this.audioContext is null, TypeError caught
            /\ ~suspended
            /\ last' = Task("mic_granted", FALSE, ReportsToUser("TypeError"),
                            <<E("stream_set"), E("TypeError")>>)
            /\ UNCHANGED <<nodes, audioWorkletNode, isRecording, resumeWait>>
       ELSE IF suspended
       THEN \* app.js:185: await this.audioContext.resume()
            /\ resumeWait' = resumeWait + 1
            /\ last' = Task("mic_granted", FALSE, FALSE,
                            <<E("stream_set"), E("await_resume")>>)
            /\ UNCHANGED <<nodes, audioWorkletNode, isRecording>>
       ELSE /\ BuildPipeline("mic_granted", <<E("stream_set")>>, Len(streams) + 1)
            /\ UNCHANGED resumeWait

\* The continuation after await resume(): app.js:189 reads this.audioStream as
\* it is now.
ResumeDone ==
    /\ UNCHANGED pureVars
    /\ resumeWait > 0
    /\ resumeWait' = resumeWait - 1
    /\ BuildPipeline("resume_done", <<>>, audioStream)
    /\ scn' = NoScn
    /\ UNCHANGED <<connVars, audioVars, audioStream, streams, flushQ, micWait,
                   workletVars, hasMediaDevices>>

----------------------------------------------------------------------------
\* The worklet processor, part_000, and the port back to the app.

\* part_000:18-23 and 29-37, on the buffer's length.
BufAfterProcess(buf, len) ==
    IF buf + len >= bufferSize THEN buf + len - bufferSize ELSE buf + len

EmitsOnProcess(buf, len) == buf + len >= bufferSize

\* process(), part_000:14-27, with a non-empty input block of len samples.
WorkletProcess(n, len) ==
    /\ UNCHANGED pureVars
    /\ n \in 1..Len(nodes)
    /\ streams[nodes[n].src] = "live"
    /\ portQ < MaxInFlight
    /\ nodes' = [nodes EXCEPT ![n].buf = BufAfterProcess(@, len)]
    /\ portQ' = IF EmitsOnProcess(nodes[n].buf, len) THEN portQ + 1 ELSE portQ
    /\ UNCHANGED <<connVars, audioVars, isRecording, audioStream,
                   audioWorkletNode, streams, flushQ, micWait, resumeWait,
                   hasMediaDevices, last, scn>>

\* The processor receives 'flush': part_000:7-11 and flushBuffer, 39-47.
WorkletFlush(n) ==
    /\ UNCHANGED pureVars
    /\ n \in flushQ
    /\ flushQ' = flushQ \ {n}
    /\ nodes' = [nodes EXCEPT ![n].buf = 0]
    /\ portQ' = IF nodes[n].buf > 0 THEN portQ + 1 ELSE portQ
    /\ UNCHANGED <<connVars, audioVars, isRecording, audioStream,
                   audioWorkletNode, streams, micWait, resumeWait,
                   hasMediaDevices, last, scn>>

\* app.js:230  the guard of sendAudioData
SocketReady(S, w) == w # 0 /\ S[w].rs = "OPEN"

\* audioWorkletNode.port.onmessage with an audioData message, app.js:199-204,
\* and sendAudioData, app.js:229-255.
PortMessage ==
    /\ UNCHANGED pureVars
    /\ portQ > 0
    /\ portQ' = portQ - 1
    /\ IF isConnected /\ websocket # 0 /\ SocketReady(sockets, websocket)
       THEN /\ sockets' = SendOn(sockets, websocket, "audio_chunk")
            /\ last' = Task("port_message", FALSE, FALSE,
                            <<ESend("audio_chunk", sockets[websocket].rs)>>)
       ELSE /\ UNCHANGED sockets
            /\ last' = Task("port_message", FALSE, FALSE, <<>>)
    /\ scn' = NoScn
    /\ UNCHANGED <<websocket, isConnected, audioVars, recVars, micWait,
                   resumeWait, hasMediaDevices>>

----------------------------------------------------------------------------
\* One AudioProcessorWorklet on its own, part_000, with the samples themselves.
\* The samples are numbered in arrival order, so that a sample dropped,
\* duplicated or moved shows in the frames.  accum.frames are the audioData
\* messages posted so far; accum.op, accum.pre, accum.len and accum.emitted
\* describe the last call: which, the buffer it found, the length of its block,
\* how many messages it posted.

\* The n samples that arrive after the first `from`.
Samples(from, n) == [i \in 1..n |-> from + i]

Min(a, b) == IF a < b THEN a ELSE b

\* part_000:30  this.buffer.slice(0, this.bufferSize)
FrameOf(buf) == SubSeq(buf, 1, Min(bufferSize, Len(buf)))

RestAfterSend_dropped(buf) == <<>>

\* part_000:31  this.buffer.slice(this.bufferSize)
RestAfterSend(buf) == SubSeq(buf, bufferSize + 1, Len(buf))

\* part_000:21  if (this.buffer.length >= this.bufferSize)
BufferFull(buf) == Len(buf) >= bufferSize

\* process(inputs), part_000:14-27: inputs[0] has `channels` channels and
\* inputs[0][0] has len samples.
AccProcess(channels, len) ==
    /\ accum.calls < MaxCalls
    /\ channels = 0 => len = 0
    /\ LET pushed == IF channels > 0
                     THEN accum.buffer \o Samples(accum.fed, len)
                     ELSE accum.buffer
           sends == channels > 0 /\ BufferFull(pushed)
       IN  accum' = [buffer |-> IF sends THEN RestAfterSend(pushed) ELSE pushed,
                     fed |-> IF channels > 0 THEN accum.fed + len ELSE accum.fed,
                     frames |-> IF sends
                                THEN Append(accum.frames, FrameOf(pushed))
                                ELSE accum.frames,
                     calls |-> accum.calls + 1,
                     op |-> "process",
                     pre |-> accum.buffer,
                     len |-> len,
                     emitted |-> IF sends THEN 1 ELSE 0]
    /\ UNCHANGED <<sessionVars, pcm, playback>>

\* port.onmessage with 'flush', part_000:7-11, and flushBuffer, part_000:39-47.
AccFlush ==
    /\ accum.calls < MaxCalls
    /\ accum' = [buffer |-> <<>>,
                 fed |-> accum.fed,
                 frames |-> IF Len(accum.buffer) > 0
                            THEN Append(accum.frames, accum.buffer)
                            ELSE accum.frames,
                 calls |-> accum.calls + 1,
                 op |-> "flush",
                 pre |-> accum.buffer,
                 len |-> 0,
                 emitted |-> IF Len(accum.buffer) > 0 THEN 1 ELSE 0]
    /\ UNCHANGED <<sessionVars, pcm, playback>>

NextAcc ==
    \/ \E channels \in {0, 1}, len \in AccBlockLens : AccProcess(channels, len)
    \/ AccFlush

SpecAcc == Init /\ [][NextAcc]_vars

----------------------------------------------------------------------------
\* One sample through floatToInt16 (app.js:352-359) and back through the
\* conversion of playAudio (app.js:304-310).  A finite sample is k/Grid, kept as
\* the integer k; the arithmetic is exact, as it is in the code, where the
\* product of a Float32 value and a 15-bit integer is an exact double.

\* The samples tried: the multiples of 1/Grid in [-1.5, 1.5], the infinities
\* and NaN.
SampleInputs ==
    [kind : {"finite"}, k : -((3 * Grid) \div 2) .. ((3 * Grid) \div 2)]
    \cup [kind : {"NaN", "+Inf", "-Inf"}, k : {0}]

NegScale == 32768    \* app.js:356  sample * 32768
PosScale == 32767    \* app.js:356  sample * 32767
DecodeDiv == 32768   \* app.js:309  int16Array[i] / 32768.0
Int16Span == 65536   \* values of an Int16Array element

Clamp_none(x) == x

\* app.js:355  Math.max(-1, Math.min(1, x)); NaN stays NaN
Clamp(x) ==
    IF x.kind = "NaN" THEN x
    ELSE IF x.kind = "+Inf" THEN [kind |-> "finite", k |-> Grid]
    ELSE IF x.kind = "-Inf" THEN [kind |-> "finite", k |-> -Grid]
    ELSE IF x.k > Grid THEN [kind |-> "finite", k |-> Grid]
    ELSE IF x.k < -Grid THEN [kind |-> "finite", k |-> -Grid]
    ELSE x

Scale_swapped(k) == IF k < 0 THEN PosScale ELSE NegScale

\* app.js:356  sample < 0 ? sample * 32768 : sample * 32767
Scale(k) == IF k < 0 THEN NegScale ELSE PosScale

\* The integer part of a / b, b > 0: conversion to an integer drops the fraction.
TruncDiv(a, b) == IF a >= 0 THEN a \div b ELSE -((-a) \div b)

\* Storing the integer n into an Int16Array element: n modulo 2^16, signed.
ToInt16(n) ==
    LET m == n % Int16Span
    IN  IF m >= Int16Span \div 2 THEN m - Int16Span ELSE m

\* The integer part of the value app.js:356 assigns; NaN and infinities would
\* be stored as 0.
WholeOf(x) ==
    IF x.kind # "finite" THEN 0
    ELSE TruncDiv(x.k * Scale(x.k), Grid)

\* floatToInt16 on a one-sample array, app.js:352-359.
FloatToInt16(x) ==
    /\ pcm.stage = "idle"
    /\ LET whole == WholeOf(Clamp(x))
       IN  pcm' = [stage |-> "encoded", kind |-> x.kind, k |-> x.k,
                   whole |-> whole, enc |-> ToInt16(whole),
                   num |-> 0, den |-> 1]
    /\ UNCHANGED <<sessionVars, accum, playback>>

\* app.js:309  channelData[i] = int16Array[i] / 32768.0, the quotient num/den
Int16ToFloat ==
    /\ pcm.stage = "encoded"
    /\ pcm' = [pcm EXCEPT !.stage = "decoded", !.num = pcm.enc, !.den = DecodeDiv]
    /\ UNCHANGED <<sessionVars, accum, playback>>

NextCodec ==
    \/ \E x \in SampleInputs : FloatToInt16(x)
    \/ Int16ToFloat

SpecCodec == Init /\ [][NextCodec]_vars

----------------------------------------------------------------------------
\* Incoming messages: websocket.onmessage (app.js:110-112),
\* handleWebSocketMessage (app.js:328-350), playAudio (app.js:278-325) and the
\* transcript functions (app.js:370-461).  Time is counted in sample frames of
\* the chunks (1/16000 s).  The transcript is a DOM element; what a handler does
\* to it is recorded in the effects of the task.

\* Byte lengths of the decoded payload of an audio_stream envelope.
ByteLens == 0..3

\* The texts a socket can deliver, by what JSON.parse and the handlers make of
\* them.  type "unparseable" is no JSON text, type "null" is the JSON text null.
\* An audio_stream has no data field ("missing"), a data string that is no
\* base64 ("not_base64"), or the base64 of n bytes.  A text_history has no
\* history, an empty one, n well-formed entries, a history that is no array, or
\* an array whose entry n is null after n - 1 well-formed ones.
Messages ==
    [type : {"unparseable", "null", "other"}, kind : {""}, n : {0}]
    \cup [type : {"audio_stream"}, kind : {"missing", "not_base64"}, n : {0}]
    \cup [type : {"audio_stream"}, kind : {"bytes"}, n : ByteLens]
    \cup [type : {"new_text"}, kind : {"ok", "bad_emote"}, n : {0}]
    \cup [type : {"text_history"}, kind : {"missing", "empty", "not_array"}, n : {0}]
    \cup [type : {"text_history"}, kind : {"entries", "bad_entry"}, n : {2}]

\* app.js:302  createBuffer(1, bytes.length / 2, 16000): the length argument is
\* converted to an unsigned long, dropping the fraction.
FramesOf(n) == n \div 2

\* What the try block of playAudio (app.js:288-320) does with the data: atob
\* throws InvalidCharacterError for a string that is no base64 (a missing field
\* is the string "undefined"), createBuffer throws NotSupportedError for a
\* length of 0, new Int16Array(bytes.buffer) throws RangeError for an odd
\* byte length.
PlayOutcome(m) ==
    IF m.kind # "bytes" THEN "InvalidCharacterError"
    ELSE IF FramesOf(m.n) = 0 THEN "NotSupportedError"
    ELSE IF m.n % 2 # 0 THEN "RangeError"
    ELSE "ok"

\* app.js:314  source.start(0): the source starts at the current time.
StartTime(pb) == pb.now

\* playAudio(message.data), app.js:278-325: its effects and the sources started.
PlayFx(m) ==
    <<E("playAudio")>> \o
    (IF ~audioContext THEN <<E("no_context")>>
     ELSE IF PlayOutcome(m) = "ok" THEN <<E("source_start")>>
     ELSE <<E(PlayOutcome(m))>>)

SchedAfterPlay(m) ==
    IF audioContext /\ PlayOutcome(m) = "ok"
    THEN Append(playback.sched,
                [start |-> StartTime(playback), dur |-> FramesOf(m.n)])
    ELSE playback.sched

\* displayNewText and addMessageToTranscript, app.js:370-377 and 396-461: the
\* placeholder, when the transcript shows it, is removed first (app.js:398-401);
\* emote[0].toLowerCase() then throws TypeError when emote[0] is not a string.
NewTextFx(m, shown) ==
    (IF shown THEN <<E("placeholder_removed")>> ELSE <<>>) \o
    (IF m.kind = "ok" THEN <<E("transcript_append")>> ELSE <<E("TypeError")>>)

\* displayTextHistory, app.js:379-394: the transcript is emptied first, so no
\* entry of the history finds the placeholder.
HistoryFx(m) ==
    <<E("transcript_clear")>> \o
    (IF m.kind \in {"missing", "empty"} THEN <<E("empty_state")>>
     ELSE IF m.kind = "not_array" THEN <<E("TypeError")>>
     ELSE IF m.kind = "entries" THEN [i \in 1..m.n |-> E("transcript_append")]
     ELSE [i \in 1..(m.n - 1) |-> E("transcript_append")] \o <<E("TypeError")>>)

\* The effects of the message event, in order, with the placeholder shown or
\* not; an error that leaves the handler uncaught is its last effect.
MessageFx(m, shown) ==
    IF m.type = "unparseable" THEN <<E("SyntaxError")>>
    ELSE IF m.type = "null" THEN <<E("TypeError")>>
    ELSE IF m.type = "audio_stream" THEN PlayFx(m)
    ELSE IF m.type = "new_text" THEN NewTextFx(m, shown)
    ELSE IF m.type = "text_history" THEN HistoryFx(m)
    ELSE <<E("ignored")>>

\* The errors no try block of the handler catches.
Uncaught(fx) == fx[Len(fx)].e \in {"SyntaxError", "TypeError"}

\* Whether the transcript shows the placeholder after the message event:
\* displayTextHistory writes it for a history that is missing or empty
\* (app.js:383-386) and empties the transcript otherwise (app.js:381),
\* addMessageToTranscript removes it (app.js:398-401).
PlaceholderAfter(m) ==
    IF m.type = "text_history"
    THEN IF m.kind \in {"missing", "empty"} THEN "shown" ELSE "absent"
    ELSE IF m.type = "new_text" THEN "absent"
    ELSE playback.placeholder

\* Whether addMessageToTranscript finds the placeholder (app.js:398): either,
\* as long as the transcript is as the markup has it.
PlaceholderFound(m) ==
    IF m.type # "new_text" THEN {FALSE}
    ELSE IF playback.placeholder = "markup" THEN BOOLEAN
    ELSE {playback.placeholder = "shown"}

\* An envelope its handler accepts: its type is known and the handler of that
\* type runs on its fields without an error.  A text_history without history
\* is handled as an empty one (app.js:383).
WellFormed(m) ==
    \/ m.type = "audio_stream" /\ m.kind = "bytes" /\ m.n > 0 /\ m.n % 2 = 0
    \/ m.type = "new_text" /\ m.kind = "ok"
    \/ m.type = "text_history" /\ m.kind \in {"missing", "empty", "entries"}

\* An unparseable message, an envelope that is no object, or a known type with
\* a payload its handler cannot use.
Malformed(m) ==
    \/ m.type \in {"unparseable", "null"}
    \/ m.type = "audio_stream" /\ ~(m.kind = "bytes" /\ m.n > 0 /\ m.n % 2 = 0)
    \/ m.type = "new_text" /\ m.kind = "bad_emote"
    \/ m.type = "text_history" /\ m.kind \in {"not_array", "bad_entry"}

\* The message event of socket s carrying m: a socket fires message events
\* only while its readyState is OPEN.
Receive(s, m) ==
    /\ s \in 1..Len(sockets)
    /\ sockets[s].rs = "OPEN"
    /\ Objects <= MaxObjects
    /\ playback' = [now |-> playback.now,
                    sched |-> IF m.type = "audio_stream"
                              THEN SchedAfterPlay(m)
                              ELSE playback.sched,
                    received |-> playback.received + 1,
                    placeholder |-> PlaceholderAfter(m)]
    /\ \E shown \in PlaceholderFound(m) :
          last' = [Task("onmessage", Uncaught(MessageFx(m, shown)), FALSE,
                        MessageFx(m, shown))
                      EXCEPT !.msg = m]
    /\ scn' = NoScn
    /\ UNCHANGED <<connVars, audioVars, recVars, micWait, resumeWait,
                   workletVars, hasMediaDevices, accum, pcm>>

\* The clock of the AudioContext advances by one sample frame.
Tick ==
    /\ playback.sched # <<>>
    /\ playback.now < MaxTime
    /\ playback' = [playback EXCEPT !.now = @ + 1]
    /\ UNCHANGED <<sessionVars, accum, pcm>>

\* Every task of the page.
Next ==
    \/ \E ids \in ConnectInputs : Connect(ids[1], ids[2])
    \/ \E ok \in BOOLEAN : ConnectResume(ok)
    \/ \E s \in 1..MaxObjects : SocketOpen(s)
    \/ \E s \in 1..MaxObjects, failed \in BOOLEAN : SocketClose(s, failed)
    \/ Disconnect
    \/ StartRecording
    \/ MicDenied
    \/ \E suspended \in BOOLEAN : MicGranted(suspended)
    \/ ResumeDone
    \/ StopRecording
    \/ \E n \in 1..MaxObjects, len \in BlockLens : WorkletProcess(n, len)
    \/ \E n \in 1..MaxObjects : WorkletFlush(n)
    \/ PortMessage
    \/ \E s \in 1..MaxObjects, m \in Messages : Receive(s, m)
    \/ Tick

Spec == Init /\ [][Next]_vars

----------------------------------------------------------------------------
\* Reading the effects of the last task.

HasE(fx, e) == \E i \in 1..Len(fx) : fx[i].e = e

PosE(fx, e) == CHOOSE i \in 1..Len(fx) : fx[i].e = e

NumE(fx, e) == Cardinality({i \in 1..Len(fx) : fx[i].e = e})

ErrorNames == {"TypeError", "NotSupportedError", "InvalidStateError", "NotAllowedError"}

\* The last task was a startRecording() step that ended in its catch block.
RecordingFailed ==
    /\ last.op \in {"startRecording", "mic_denied", "mic_granted", "resume_done"}
    /\ \E i \in 1..Len(last.fx) : last.fx[i].e \in ErrorNames

LiveSockets == {s \in 1..Len(sockets) : sockets[s].rs \in {"CONNECTING", "OPEN"}}

----------------------------------------------------------------------------
\* The claims.

\* C1: in every reachable state, the recording state is true only if the
\* connection state is connected (isRecording implies isConnected).
C1_RecordingImpliesConnected == isRecording => isConnected

\* C2: on every connection, the first two envelopes sent over it are user_joined
\* and then get_history, in that order, before any audio_chunk or user_left;
\* the connection the session holds open has had both sent.
C2_JoinThenHistoryFirst ==
    \A s \in 1..Len(sockets) :
        LET log == sockets[s].sent IN
        /\ log # <<>> =>
              /\ Len(log) >= 2
              /\ log[1] = "user_joined"
              /\ log[2] = "get_history"
        /\ (websocket = s /\ sockets[s].rs = "OPEN") => log # <<>>

C2_Witness ==
    \E s \in 1..Len(sockets) :
        /\ Len(sockets[s].sent) = 3
        /\ sockets[s].sent[3] = "audio_chunk"

\* C3: when disconnect() is invoked while the session is Connected(recording),
\* stop-recording (flush requested, microphone released, recording state false)
\* is performed first, and only afterwards is user_left sent and the channel
\* closed.
C3_StopBeforeClose ==
    (/\ last.op = "disconnect"
     /\ last.pre.conn /\ last.pre.rec /\ last.pre.rs = "OPEN")
    => /\ HasE(last.fx, "rec_false")
       /\ HasE(last.fx, "send")
       /\ HasE(last.fx, "close")
       /\ PosE(last.fx, "rec_false") < PosE(last.fx, "send")
       /\ PosE(last.fx, "rec_false") < PosE(last.fx, "close")

\* C4: when the transport closes unsolicited while the session is
\* Connected(recording), the session ends Disconnected with recording stopped:
\* recording state false, microphone stream released, capture node torn down.
C4_UnsolicitedCloseStopsRecording ==
    (/\ last.op = "onclose"
     /\ last.pre.conn /\ last.pre.rec /\ last.pre.rs = "OPEN"
     /\ websocket # 0 /\ sockets[websocket].rs = "CLOSED")
    => /\ ~isConnected
       /\ ~isRecording
       /\ audioStream = 0
       /\ audioWorkletNode = 0
       /\ last.pre.stream # 0 => streams[last.pre.stream] = "stopped"

\* C5: at any time at most one connection created by the session is in the
\* connecting or open state.
C5_AtMostOneLiveConnection == Cardinality(LiveSockets) <= 1

\* C6: every attempt to send an envelope while the connection is not open is a
\* no-op that does not raise; disconnect() while the connection is still being
\* established, and the close-event handler, complete without an exception.
C6_SendWhenNotOpenDoesNotRaise ==
    /\ (\E i \in 1..Len(last.fx) :
            last.fx[i].e = "send" /\ last.fx[i].rs # "OPEN") => ~last.raised
    /\ last.op \in {"disconnect", "onclose"} => ~last.raised

\* C7: user_joined and user_left are only ever handed to a connection that is
\* open at that moment.
C7_LifecycleOnlyOnOpen ==
    \A i \in 1..Len(last.fx) :
        (last.fx[i].e = "send" /\ last.fx[i].t \in {"user_joined", "user_left"})
        => last.fx[i].rs = "OPEN"

\* C8: from Connected(recording), stopRecording() followed immediately by
\* disconnect(), and the later close event, yields Disconnected with the
\* microphone stream released and close invoked exactly once on the
\* connection; a further disconnect() neither closes nor sends anything.
C8_StopThenDisconnect ==
    /\ scn.stage >= 2 =>
          /\ ~isConnected
          /\ ~isRecording
          /\ audioStream = 0
          /\ streams[scn.stream] = "stopped"
          /\ ~last.raised
    /\ scn.stage = 2 =>
          /\ NumE(last.fx, "close") = 1
          /\ sockets[scn.sock].rs = "CLOSING"
    /\ scn.stage = 3 =>
          /\ sockets[scn.sock].rs = "CLOSED"
          /\ ~HasE(last.fx, "send")
    /\ scn.stage \in {4, 5} =>
          /\ last.op = "disconnect"
          /\ ~HasE(last.fx, "close")
          /\ ~HasE(last.fx, "send")
    /\ scn.stage = 5 => sockets[scn.sock].rs = "CLOSED"

C8_Witness == scn.stage = 5

\* C9: startRecording() invoked while Disconnected leaves the session state
\* unchanged (connection state, recording state, microphone stream, capture
\* node), requests no microphone access, and reports an error without raising.
C9_StartWhileDisconnectedRejected ==
    (last.op = "startRecording" /\ ~last.pre.conn)
    => /\ last.alerted
       /\ ~last.raised
       /\ last.fx = <<>>
       /\ isConnected = last.pre.conn
       /\ isRecording = last.pre.rec
       /\ audioStream = last.pre.stream
       /\ audioWorkletNode = last.pre.node

C9_Witness ==
    /\ last.op = "startRecording"
    /\ ~last.pre.conn
    /\ last.alerted
    /\ Len(sockets) > 0

\* C10: when startRecording() invoked in Connected(not recording) fails
\* (permission denied, or the capture pipeline cannot be created), the session
\* state afterwards equals the state before (recording false, no microphone
\* stream held, no capture node) and the failure is reported to the user.
C10_FailedStartLeavesStateAndReports ==
    (/\ RecordingFailed
     /\ last.pre.conn /\ ~last.pre.rec
     /\ last.pre.stream = 0 /\ last.pre.node = 0)
    => /\ ~isRecording
       /\ audioStream = 0
       /\ audioWorkletNode = 0
       /\ last.alerted

\* The characters a whitespace-only id is made of.
BlankChars == WhiteSpace \cup LineTerminators

\* C11: connect() with an empty or whitespace-only room id or user id is
\* rejected with a user-visible message before any network action: no
\* connection is created, no audio context is initialized, the session state
\* is unchanged.
C11_BlankIdsRejected ==
    [][(/\ last'.op = "connect"
        /\ \E ids \in ConnectInputs :
              /\ \/ \A i \in 1..Len(ids[1]) : ids[1][i] \in BlankChars
                 \/ \A i \in 1..Len(ids[2]) : ids[2][i] \in BlankChars
              /\ Connect(ids[1], ids[2]))
       => /\ last'.alerted
          /\ ~last'.raised
          /\ last'.fx = <<>>
          /\ UNCHANGED <<websocket, sockets, isConnected, audioContext,
                         workletLoaded, initPending, pendingRoom, isRecording,
                         audioStream, audioWorkletNode, streams, nodes,
                         micWait, resumeWait>>]_vars

C11_Witness ==
    /\ last.op = "connect"
    /\ last.alerted
    /\ last.fx = <<>>
    /\ last.pre.conn
    /\ last.pre.rec
    /\ isConnected
    /\ isRecording

RECURSIVE Flatten(_)
Flatten(fs) == IF fs = <<>> THEN <<>> ELSE Head(fs) \o Flatten(Tail(fs))

\* C12: after any sequence of process() calls with arbitrary block sizes
\* followed by a flush, the emitted frames concatenated in emission order are
\* exactly the input samples in arrival order: nothing dropped, duplicated or
\* reordered, total emitted length equal to total input length.
C12_FramesConcatenateToInput ==
    /\ Flatten(accum.frames) \o accum.buffer = Samples(0, accum.fed)
    /\ accum.op = "flush" =>
          /\ Flatten(accum.frames) = Samples(0, accum.fed)
          /\ Len(Flatten(accum.frames)) = accum.fed

C12_Witness ==
    /\ accum.op = "flush"
    /\ Len(accum.frames) >= 2
    /\ Len(accum.pre) = 128
    /\ accum.fed = bufferSize + 128

\* C13: after every process() call, whatever the block size, every complete
\* frame has been emitted: the frames the call emitted have exactly the frame
\* size and fewer than frame-size samples remain buffered, so a later flush
\* never emits a frame longer than the frame size.
C13_AllCompleteFramesEmitted ==
    /\ accum.op = "process" => Len(accum.buffer) < bufferSize
    /\ \A i \in 1..Len(accum.frames) : Len(accum.frames[i]) <= bufferSize

\* C14: no frame of length zero is ever emitted: flush on an empty buffer emits
\* nothing and leaves the buffer empty, flush on a non-empty buffer emits
\* exactly one frame holding the whole buffer and empties it, and process()
\* with an empty block emits nothing.
C14_NoEmptyFrame ==
    /\ \A i \in 1..Len(accum.frames) : Len(accum.frames[i]) > 0
    /\ (accum.op = "flush" /\ accum.pre = <<>>) =>
          accum.emitted = 0 /\ accum.buffer = <<>>
    /\ (accum.op = "flush" /\ accum.pre # <<>>) =>
          /\ accum.emitted = 1
          /\ accum.frames[Len(accum.frames)] = accum.pre
          /\ accum.buffer = <<>>
    /\ (accum.op = "process" /\ accum.len = 0) => accum.emitted = 0

Abs(n) == IF n < 0 THEN -n ELSE n

\* The sample of pcm is finite and lies in [-1, 1].
InUnitRange == pcm.kind = "finite" /\ -Grid <= pcm.k /\ pcm.k <= Grid

\* |num/den - k/Grid| as a multiple of 1/(den * Grid).
RoundTripError == Abs(pcm.num * Grid - pcm.k * pcm.den)

\* C15 (as stated): for every sample f in [-1, 1], the decoded encoded sample
\* differs from f by at most one quantization step, 1/32768.
C15_RoundTripWithinOneStep ==
    (pcm.stage = "decoded" /\ InUnitRange) => RoundTripError <= Grid

\* C15 (amended): for every sample f in [-1, 1], the decoded encoded sample
\* differs from f by less than two quantization steps, 2/32768, and by less
\* than one step when f is negative.
C15_RoundTripWithinTwoSteps ==
    (pcm.stage = "decoded" /\ InUnitRange) =>
        /\ RoundTripError < 2 * Grid
        /\ pcm.k < 0 => RoundTripError < Grid

C15_Witness ==
    /\ pcm.stage = "decoded"
    /\ InUnitRange
    /\ RoundTripError > Grid

\* C16: floatToInt16 clamps before quantizing: for every input sample, also
\* outside [-1, 1], the encoded value lies in [-32768, 32767] and is the value
\* computed, not a wrapped one; every f >= 1 encodes to 32767 and every
\* f <= -1 to -32768.
C16_ClampBeforeQuantize ==
    pcm.stage # "idle" =>
        /\ -32768 <= pcm.enc /\ pcm.enc <= 32767
        /\ pcm.enc = pcm.whole
        /\ (pcm.kind = "+Inf" \/ (pcm.kind = "finite" /\ pcm.k >= Grid))
              => pcm.enc = 32767
        /\ (pcm.kind = "-Inf" \/ (pcm.kind = "finite" /\ pcm.k <= -Grid))
              => pcm.enc = -32768

C16_Witness ==
    /\ pcm.stage = "encoded"
    /\ pcm.kind = "finite"
    /\ pcm.k > Grid
    /\ pcm.enc = 32767

\* C17: incoming audio_stream chunks are scheduled gap-free and without
\* overlap: each chunk's scheduled start time equals the previous chunk's
\* scheduled end time.
C17_GapFreeScheduling ==
    \A i \in 1..(Len(playback.sched) - 1) :
        playback.sched[i + 1].start
            = playback.sched[i].start + playback.sched[i].dur

\* What the handler of a well-formed envelope m has done when m was dispatched
\* to it.
Dispatched(m) ==
    /\ m.type = "audio_stream" =>
          /\ HasE(last.fx, "playAudio")
          /\ audioContext =>
                /\ HasE(last.fx, "source_start")
                /\ playback.sched # <<>>
                /\ playback.sched[Len(playback.sched)].dur = m.n \div 2
    /\ m.type = "new_text" => NumE(last.fx, "transcript_append") = 1
    /\ m.type = "text_history" =>
          /\ last.fx[1].e = "transcript_clear"
          /\ NumE(last.fx, "transcript_append") = (IF m.kind = "entries" THEN m.n ELSE 0)

\* C18: a malformed incoming envelope or audio payload affects only itself: it
\* is dropped (it starts no source and neither clears nor extends the
\* transcript nor removes its placeholder; the error of a malformed audio
\* payload does not leave the
\* handler) without changing the connection or recording state, and every
\* well-formed envelope received, also after a malformed one, is dispatched to
\* its handler.
C18_MalformedEnvelopeIsolated ==
    last.op = "onmessage" =>
        /\ isConnected = last.pre.conn
        /\ isRecording = last.pre.rec
        /\ audioStream = last.pre.stream
        /\ audioWorkletNode = last.pre.node
        /\ websocket = last.pre.ws
        /\ websocket # 0 => sockets[websocket].rs = last.pre.rs
        /\ Malformed(last.msg) =>
              /\ ~HasE(last.fx, "source_start")
              /\ ~HasE(last.fx, "transcript_clear")
              /\ ~HasE(last.fx, "transcript_append")
              /\ ~HasE(last.fx, "placeholder_removed")
        /\ (Malformed(last.msg) /\ last.msg.type = "audio_stream") =>
              ~last.raised
        /\ WellFormed(last.msg) =>
              /\ ~last.raised
              /\ Dispatched(last.msg)

\* C19: after disconnect() is invoked in a state in which a connection exists
\* or is being established (also while connect() awaits the audio
\* initialization or the connection has not opened yet), the connection is
\* torn down and the session is Disconnected: nothing is left that a later
\* open event could turn Connected.
C19_DisconnectTearsDown ==
    (last.op = "disconnect" /\ (last.pre.ws # 0 \/ initPending))
    => /\ ~isConnected
       /\ ~last.raised
       /\ ~initPending
       /\ last.pre.ws # 0 => sockets[last.pre.ws].rs \in {"CLOSING", "CLOSED"}

\* C20: the close event of a connection that disconnect() closed and a later
\* connect() superseded has no effect on the current connection: it does not
\* set the connection state to disconnected while the new connection is open,
\* sends nothing over the new connection, and does not raise.
C20_LateCloseHasNoEffect ==
    [][last'.op = "onclose" =>
       \A s \in 1..Len(sockets) :
          (/\ websocket \notin {0, s}
           /\ sockets[s].rs = "CLOSING"
           /\ \E failed \in BOOLEAN : SocketClose(s, failed))
          => /\ sockets[websocket].rs = "OPEN" => isConnected' = isConnected
             /\ \A i \in 1..Len(last'.fx) :
                   last'.fx[i].e = "send" => last'.fx[i].rs # "OPEN"
             /\ ~last'.raised]_vars

\* The microphone streams whose tracks have not been stopped.
LiveStreams == {i \in 1..Len(streams) : streams[i] = "live"}

\* C21: no microphone stream is leaked: whenever the recording state is false
\* and no startRecording() is in flight, every stream that was acquired has
\* had its tracks stopped; and at most one stream is live at any time.
C21_NoStreamLeak ==
    /\ (~isRecording /\ micWait = 0 /\ resumeWait = 0) => LiveStreams = {}
    /\ Cardinality(LiveStreams) <= 1

====
